---- MODULE Spec2Model ----
(***************************************************************************)
(* Model of the TTS testing application:                                   *)
(*   src/app.py              the Streamlit evaluation / live-test app      *)
(*   src/data_generation.py  the offline batch generation driver           *)
(*                                                                         *)
(* Strings the code inspects character by character are sequences of       *)
(* one-character strings; a file path is the tuple of the parts that the   *)
(* code's f-string puts together.  The Google Sheets backend, the HTTP     *)
(* endpoints and the file system are the environment: every call to them   *)
(* either takes effect and returns, or raises without effect.              *)
(***************************************************************************)
EXTENDS Integers, Sequences, FiniteSets, TLC

\* ------------------------------------------------------------------------
\* Bounds of the model
\* ------------------------------------------------------------------------
\* save_to_google_sheets is called at most this many times in a behaviour
MaxSubmits == 2
\* the evaluators commit at most this many score or comment edits in a behaviour
MaxEdits == 1
\* the wall clock (seconds) runs from 0 to MaxTime
MaxTime == 1

VARIABLES
    \* --- deployment and environment
    evaluators,       \* the browser sessions connected to the app
    creds,            \* GOOGLE_SHEETS_CREDENTIALS: "missing" | "invalid" | "valid"
    sheet_id,         \* GOOGLE_SHEET_ID: "missing" | "present"
    now,              \* the wall clock, in seconds
    files,            \* the file system: path -> content of the files that exist
    folder_exists,    \* whether the hausa_audio folder exists
    \* --- app.py, shared by the sessions
    client,           \* st.cache_resource of get_google_sheets_client
    sheet,            \* the rows of spreadsheet.sheet1
    \* --- app.py, tab1, per session
    user_name,        \* widget "user_name"
    scores,           \* widgets "overall_naturalness" .. "overall_mtn"
    overall_comment,  \* widget "overall_comment"
    clicked,          \* the last script run carried a click on Submit
    shown,            \* the audio listing the last script run displayed
    message,          \* what the last script run showed
    pc,               \* position inside save_to_google_sheets
    data,             \* the dict passed to save_to_google_sheets
    result,           \* what the last save_to_google_sheets call returned
    \* --- history of the save_to_google_sheets calls
    calls,            \* per session: number of save_to_google_sheets calls
    wrote,            \* per session: rows the current/last call appended
    row_written,      \* per session: the current/last call appended its data row
    saved,            \* the dicts of the calls that returned True, in order
    edits,            \* number of score and comment edits committed so far
    \* --- app.py, get_audio_files called on its own
    audio_files,      \* what the last get_audio_files call returned
    audio_called,     \* get_audio_files has been called
    \* --- app.py, transcribe_with_awarri_new
    language,         \* the language argument of the last call
    http_outcome,     \* how the POST of the last call went
    request_language, \* payload["language"] of the last call
    transcribe_status,\* result['status'] of the last call
    \* --- data_generation.py, run_batch_tts
    batch_state,      \* "running" | "done" | "raised"
    batch_pos,        \* loop iterations completed
    synth_calls,      \* the texts passed to synthesize_awarri_tts, in order
    synth_returns,    \* the bytes each successful synthesize_awarri_tts returned
    written           \* the paths written in full, in order

eval_vars == <<evaluators, creds, sheet_id, now, client, sheet, user_name, scores,
               overall_comment, clicked, shown, message, pc, data, result, calls,
               wrote, row_written, saved, edits>>

disk_vars == <<files, folder_exists>>

audio_vars == <<audio_files, audio_called>>

transcribe_vars == <<language, http_outcome, request_language, transcribe_status>>

batch_vars == <<batch_state, batch_pos, synth_calls, synth_returns, written>>

vars == <<eval_vars, disk_vars, audio_vars, transcribe_vars, batch_vars>>

\* what the evaluation tab leaves alone
outside_eval == <<disk_vars, audio_vars, transcribe_vars, batch_vars>>

\* ------------------------------------------------------------------------
\* The catalog and the file names (both programs)
\* ------------------------------------------------------------------------
\* the folder both programs use
AudioFolder == "hausa_audio"

\* f"Hausa_{tier}_audio{i}.wav" under the hausa_audio folder
AudioPath(tier, i) == <<AudioFolder, "Hausa_", tier, "_audio", i, ".wav">>

\* ------------------------------------------------------------------------
\* app.py: get_audio_files
\* ------------------------------------------------------------------------
ShortRangeEnd == 6
MediumRangeEnd == 5
LongRangeEnd == 5

\* a listing that does not look at the disk
PathExistsAlways(fs, p) == TRUE

\* os.path.exists(file_path)
PathExists(fs, p) == p \in DOMAIN fs

RECURSIVE ScanTier(_, _, _, _)
\* for i in range(i, stop): append the path when it exists
ScanTier(fs, tier, i, stop) ==
    IF i >= stop THEN <<>>
    ELSE (IF PathExists(fs, AudioPath(tier, i)) THEN <<AudioPath(tier, i)>> ELSE <<>>)
         \o ScanTier(fs, tier, i + 1, stop)

get_audio_files(fs, folder) ==
    IF folder
    THEN [short  |-> ScanTier(fs, "short", 1, ShortRangeEnd),
          medium |-> ScanTier(fs, "medium", 1, MediumRangeEnd),
          long   |-> ScanTier(fs, "long", 1, LongRangeEnd)]
    ELSE [short |-> <<>>, medium |-> <<>>, long |-> <<>>]

\* any(audio_files.values())
AnyAudio(af) == Len(af.short) > 0 \/ Len(af.medium) > 0 \/ Len(af.long) > 0

\* ------------------------------------------------------------------------
\* app.py: the evaluation tab (tab1) and save_to_google_sheets
\* ------------------------------------------------------------------------
Sessions == {"s1", "s2"}

\* what an evaluator can type
Names == {"", "Ada"}
Comments == {"", "good"}
RawScores == {0, 1, 10, 11}

MinScore == 1
MaxScore == 10
DefaultScore == 5

\* a guard that lets every name through
TruthyAlways(s) == TRUE

\* Python truthiness of a str
Truthy(s) == s # ""

\* st.number_input(label, min_value, max_value, value): a typed value outside
\* [min_value, max_value] is not committed, the widget keeps its value
number_input(prev, raw, min_value, max_value) ==
    IF min_value <= raw /\ raw <= max_value THEN raw ELSE prev

\* a number input without min_value and max_value
ScoreInputUnbounded(prev, raw) == raw

\* st.number_input(label, 1, 10, 5)
ScoreInput(prev, raw) == number_input(prev, raw, MinScore, MaxScore)

ScoreKeys == {"naturalness", "accuracy", "numbers", "mtn"}

DefaultScores == [k \in ScoreKeys |-> DefaultScore]

\* datetime.now().strftime("%Y-%m-%d %H:%M:%S")
strftime(t) == "2026-01-01 00:00:0" \o ToString(t)

\* the dict built on submit
BuildData(t, name, sc, comment) ==
    ("Timestamp" :> strftime(t)) @@
    ("User Name" :> name) @@
    ("Naturalness Score" :> sc["naturalness"]) @@
    ("Accuracy Score" :> sc["accuracy"]) @@
    ("Pronouncing Numbers Score" :> sc["numbers"]) @@
    ("Pronouncing MTN Lingo Score" :> sc["mtn"]) @@
    ("Overall Comment" :> comment)

headers ==
    <<"Timestamp", "User Name", "Naturalness Score", "Accuracy Score",
      "Pronouncing Numbers Score", "Pronouncing MTN Lingo Score", "Overall Comment">>

\* the row save_to_google_sheets appends for a dict
Row(d) ==
    <<d["Timestamp"], d["User Name"], d["Naturalness Score"], d["Accuracy Score"],
      d["Pronouncing Numbers Score"], d["Pronouncing MTN Lingo Score"],
      d["Overall Comment"]>>

\* get_google_sheets_client, without the cache
ClientInit ==
    IF creds = "missing" THEN "None"
    ELSE IF creds = "invalid" THEN "None"
    ELSE "client"

\* get_google_sheets_client under @st.cache_resource
get_google_sheets_client == IF client = "unset" THEN ClientInit ELSE client

\* the message tab1 shows for what save_to_google_sheets returned
SubmitMessage(returned) == IF returned = "True" THEN "success" ELSE "error_save"

\* an except clause that reports success
FailureReturnsTrue == "True"

\* what save_to_google_sheets returns from its except clause and its early exits
FailureReturn == "False"

\* save_to_google_sheets gave up: the except clause, or an early return False
SaveFailed(e) ==
    /\ pc' = [pc EXCEPT ![e] = "idle"]
    /\ result' = [result EXCEPT ![e] = FailureReturn]
    /\ message' = [message EXCEPT ![e] = SubmitMessage(FailureReturn)]

\* save_to_google_sheets up to its first access to the worksheet's rows
SaveBegin(e, d, opened) ==
    /\ calls' = [calls EXCEPT ![e] = @ + 1]
    /\ data' = [data EXCEPT ![e] = d]
    /\ wrote' = [wrote EXCEPT ![e] = 0]
    /\ row_written' = [row_written EXCEPT ![e] = FALSE]
    /\ client' = get_google_sheets_client
    /\ IF get_google_sheets_client = "None" \/ sheet_id = "missing" \/ ~opened
       THEN SaveFailed(e)
       ELSE /\ pc' = [pc EXCEPT ![e] = "check"]
            /\ result' = [result EXCEPT ![e] = "none"]
            /\ message' = [message EXCEPT ![e] = "spinner"]

TotalCalls == LET RECURSIVE Sum(_)
                  Sum(S) == IF S = {} THEN 0
                            ELSE LET x == CHOOSE x \in S : TRUE
                                 IN calls[x] + Sum(S \ {x})
              IN Sum(evaluators)

\* TEXTS of app.py, letters outside ASCII written in ASCII
TEXTS ==
    [short |->
        <<"Sannu! Ta yaya zan iya taimaka maka yau?",
          "Don Allah jira dan lokaci.",
          "Ana sarrafa bukatarka.",
          "Na gode da tuntubar MTN.",
          "Shigarwar ba daidai ba, don Allah gwada kuma.">>,
     medium |->
        <<"Adadin bayananka shi ne N600. Zai kare a ranar 20 ga Oktoba. Latsa *131# don siyan kari.",
          "Zan iya taimaka maka da airtime, data ko matsalar asusu. Me kake son yi?",
          "Kana da shirin bayanai guda daya mai aiki yanzu. Kana so ka kalla ko ka soke shi?",
          "Yi hakuri, ban ji hakan ba. Za ka iya maimaitawa?">>,
     long |->
        <<"Barka da zuwa MTN Sashen Kula da Abokan Hulda. Zaka iya siyan bayanai, cajar airtime, bincika balance dinka, ko neman taimako kan asusunka. Don Allah zabi zabi don ci gaba.",
          "Mun lura cewa ka yi amfani da kashi 80% na bayananka. Don guje wa katsewa, zaka iya kara bayananka ta *131# ko ta cikin MTN app.",
          "SIM dinka ba a gama rajista ba don wasu ayyuka. Don kammala, je cibiyar MTN mafi kusa tare da sahihin ID. Mun gode da fahimtarka.",
          "Airtime dinka bai isa kammala wannan mu'amala ba. Don Allah caji layinka sannan ka sake gwadawa. Latsa *555*PIN# don caji.">>]

\* for idx, (audio_path, text) in enumerate(zip(paths, texts), 1): the k-th
\* path is drawn beside the k-th text under the label "Audio k"
Listing(paths, texts) ==
    [k \in 1..(IF Len(paths) < Len(texts) THEN Len(paths) ELSE Len(texts)) |->
        [label |-> k, audio |-> paths[k], text |-> texts[k]]]

\* the three listings tab1 draws
ShowAudios(af) ==
    [short  |-> Listing(af.short, TEXTS.short),
     medium |-> Listing(af.medium, TEXTS.medium),
     long   |-> Listing(af.long, TEXTS.long)]

\* a script run that draws no audio
NoListing == [short |-> <<>>, medium |-> <<>>, long |-> <<>>]

\* the widgets below the name input were drawn by the last script run
FormShown(e) == message[e] \in {"form", "success", "error_save"}

\* a script run that does not reach save_to_google_sheets
NoSave(e) ==
    /\ data' = [data EXCEPT ![e] = <<>>]
    /\ result' = [result EXCEPT ![e] = "none"]
    /\ wrote' = [wrote EXCEPT ![e] = 0]
    /\ row_written' = [row_written EXCEPT ![e] = FALSE]
    /\ UNCHANGED <<client, pc, calls>>

\* One run of the script for session e with the widget values the browser sent.
\* pressed: the Submit button was clicked; opened: open_by_key succeeds.
\* A widget the run does not draw loses its value.
ScriptRun(e, name, sc, comment, pressed, opened) ==
    /\ pc[e] = "idle"
    /\ user_name' = [user_name EXCEPT ![e] = name]
    /\ clicked' = [clicked EXCEPT ![e] = pressed]
    /\ IF ~Truthy(name)
       THEN /\ message' = [message EXCEPT ![e] = "warning_name"]
            /\ shown' = [shown EXCEPT ![e] = NoListing]
            /\ scores' = [scores EXCEPT ![e] = DefaultScores]
            /\ overall_comment' = [overall_comment EXCEPT ![e] = ""]
            /\ NoSave(e)
       ELSE IF ~AnyAudio(get_audio_files(files, folder_exists))
       THEN /\ message' = [message EXCEPT ![e] = "error_no_audio"]
            /\ shown' = [shown EXCEPT ![e] = NoListing]
            /\ scores' = [scores EXCEPT ![e] = DefaultScores]
            /\ overall_comment' = [overall_comment EXCEPT ![e] = ""]
            /\ NoSave(e)
       ELSE /\ shown' = [shown EXCEPT ![e] =
                           ShowAudios(get_audio_files(files, folder_exists))]
            /\ scores' = [scores EXCEPT ![e] = sc]
            /\ overall_comment' = [overall_comment EXCEPT ![e] = comment]
            /\ IF pressed
               THEN IF Truthy(name)
                    THEN SaveBegin(e, BuildData(now, name, sc, comment), opened)
                    ELSE /\ message' = [message EXCEPT ![e] = "error_name"]
                         /\ NoSave(e)
               ELSE /\ message' = [message EXCEPT ![e] = "form"]
                    /\ NoSave(e)
    /\ UNCHANGED <<evaluators, creds, sheet_id, now, sheet, saved>>
    /\ UNCHANGED outside_eval

\* the evaluator types a name
EditName(e, n) ==
    /\ n # user_name[e]
    /\ ScriptRun(e, n, scores[e], overall_comment[e], FALSE, FALSE)
    /\ UNCHANGED edits

\* the evaluator types a score into one of the four number inputs
EditScore(e, k, raw) ==
    /\ FormShown(e)
    /\ edits < MaxEdits
    /\ ScoreInput(scores[e][k], raw) # scores[e][k]
    /\ ScriptRun(e, user_name[e],
                 [scores[e] EXCEPT ![k] = ScoreInput(@, raw)],
                 overall_comment[e], FALSE, FALSE)
    /\ edits' = edits + 1

\* the evaluator types a comment
EditComment(e, c) ==
    /\ FormShown(e)
    /\ edits < MaxEdits
    /\ c # overall_comment[e]
    /\ ScriptRun(e, user_name[e], scores[e], c, FALSE, FALSE)
    /\ edits' = edits + 1

\* the evaluator clicks Submit; the click carries the name field as it is then
PressSubmit(e, n, opened) ==
    /\ FormShown(e)
    /\ TotalCalls < MaxSubmits
    /\ ScriptRun(e, n, scores[e], overall_comment[e], TRUE, opened)
    /\ UNCHANGED edits

\* worksheet.row_values(1) and the decision to add the headers
CheckHeaders(e, raised) ==
    /\ pc[e] = "check"
    /\ LET row1 == IF Len(sheet) = 0 THEN <<>> ELSE sheet[1]
       IN  pc' = [pc EXCEPT ![e] = IF raised \/ Len(row1) = 0 THEN "header" ELSE "row"]
    /\ UNCHANGED <<shown, evaluators, creds, sheet_id, now, client, sheet, user_name, scores,
                   overall_comment, clicked, message, data, result, calls, wrote,
                   row_written, saved, edits>>
    /\ UNCHANGED outside_eval

\* worksheet.append_row(headers)
AppendHeaders(e, ok) ==
    /\ pc[e] = "header"
    /\ IF ok
       THEN /\ sheet' = Append(sheet, headers)
            /\ wrote' = [wrote EXCEPT ![e] = @ + 1]
            /\ pc' = [pc EXCEPT ![e] = "row"]
            /\ UNCHANGED <<result, message>>
       ELSE /\ SaveFailed(e)
            /\ UNCHANGED <<sheet, wrote>>
    /\ UNCHANGED <<shown, evaluators, creds, sheet_id, now, client, user_name, scores,
                   overall_comment, clicked, data, calls, row_written, saved, edits>>
    /\ UNCHANGED outside_eval

\* worksheet.append_row(row); return True
AppendRow(e, ok) ==
    /\ pc[e] = "row"
    /\ IF ok
       THEN /\ sheet' = Append(sheet, Row(data[e]))
            /\ wrote' = [wrote EXCEPT ![e] = @ + 1]
            /\ row_written' = [row_written EXCEPT ![e] = TRUE]
            /\ saved' = Append(saved, data[e])
            /\ pc' = [pc EXCEPT ![e] = "idle"]
            /\ result' = [result EXCEPT ![e] = "True"]
            /\ message' = [message EXCEPT ![e] = SubmitMessage("True")]
       ELSE /\ SaveFailed(e)
            /\ UNCHANGED <<sheet, wrote, row_written, saved>>
    /\ UNCHANGED <<shown, evaluators, creds, sheet_id, now, client, user_name, scores,
                   overall_comment, clicked, data, calls, edits>>
    /\ UNCHANGED outside_eval

\* a second passes
Tick ==
    /\ now < MaxTime
    /\ now' = now + 1
    /\ UNCHANGED <<shown, evaluators, creds, sheet_id, client, sheet, user_name, scores,
                   overall_comment, clicked, message, pc, data, result, calls, wrote,
                   row_written, saved, edits>>
    /\ UNCHANGED outside_eval

\* the folders the evaluation runs start from: no folder, an empty folder,
\* and a folder with some of the files
GapDisk == [p \in {AudioPath("short", 2), AudioPath("long", 4)} |-> "wav"]

EvalInit(E) ==
    /\ evaluators = E
    /\ now = 0
    /\ client = "unset"
    /\ sheet = <<>>
    /\ user_name = [e \in E |-> ""]
    /\ scores = [e \in E |-> DefaultScores]
    /\ overall_comment = [e \in E |-> ""]
    /\ clicked = [e \in E |-> FALSE]
    /\ shown = [e \in E |-> NoListing]
    /\ message = [e \in E |-> "warning_name"]
    /\ pc = [e \in E |-> "idle"]
    /\ data = [e \in E |-> <<>>]
    /\ result = [e \in E |-> "none"]
    /\ calls = [e \in E |-> 0]
    /\ wrote = [e \in E |-> 0]
    /\ row_written = [e \in E |-> FALSE]
    /\ saved = <<>>
    /\ edits = 0

\* the evaluation tab with a backend whose calls may fail
Next ==
    \/ \E e \in evaluators, n \in Names : EditName(e, n)
    \/ \E e \in evaluators, k \in ScoreKeys, raw \in RawScores : EditScore(e, k, raw)
    \/ \E e \in evaluators, c \in Comments : EditComment(e, c)
    \/ \E e \in evaluators, n \in Names, opened \in BOOLEAN : PressSubmit(e, n, opened)
    \/ \E e \in evaluators, raised \in BOOLEAN : CheckHeaders(e, raised)
    \/ \E e \in evaluators, ok \in BOOLEAN : AppendHeaders(e, ok)
    \/ \E e \in evaluators, ok \in BOOLEAN : AppendRow(e, ok)
    \/ Tick

\* the evaluation tab with a backend whose calls all succeed
NextConcurrent ==
    \/ \E e \in evaluators, n \in Names : EditName(e, n)
    \/ \E e \in evaluators, k \in ScoreKeys, raw \in RawScores : EditScore(e, k, raw)
    \/ \E e \in evaluators, c \in Comments : EditComment(e, c)
    \/ \E e \in evaluators, n \in Names : PressSubmit(e, n, TRUE)
    \/ \E e \in evaluators : CheckHeaders(e, FALSE)
    \/ \E e \in evaluators : AppendHeaders(e, TRUE)
    \/ \E e \in evaluators : AppendRow(e, TRUE)
    \/ Tick

\* ------------------------------------------------------------------------
\* app.py: get_audio_files called on a folder in any state
\* ------------------------------------------------------------------------
CallGetAudioFiles ==
    /\ ~audio_called
    /\ audio_files' = get_audio_files(files, folder_exists)
    /\ audio_called' = TRUE
    /\ UNCHANGED <<eval_vars, disk_vars, transcribe_vars, batch_vars>>

\* ------------------------------------------------------------------------
\* app.py: transcribe_with_awarri_new
\* ------------------------------------------------------------------------
LowerLetters ==
    <<"a", "b", "c", "d", "e", "f", "g", "h", "i", "j", "k", "l", "m",
      "n", "o", "p", "q", "r", "s", "t", "u", "v", "w", "x", "y", "z">>

UpperLetters ==
    <<"A", "B", "C", "D", "E", "F", "G", "H", "I", "J", "K", "L", "M",
      "N", "O", "P", "Q", "R", "S", "T", "U", "V", "W", "X", "Y", "Z">>

\* str.lower() on one character
LowerChar(c) ==
    IF \E i \in DOMAIN UpperLetters : UpperLetters[i] = c
    THEN LowerLetters[CHOOSE i \in DOMAIN UpperLetters : UpperLetters[i] = c]
    ELSE c

\* str.lower()
lower(s) == [i \in 1..Len(s) |-> LowerChar(s[i])]

AWARRI_LANGUAGE_MAPPING ==
    (<<"h", "a", "u", "s", "a">> :> "Hausa") @@
    (<<"e", "n", "g", "l", "i", "s", "h">> :> "English")

\* dict.get(key, default)
DictGet(d, key, default) == IF key \in DOMAIN d THEN d[key] ELSE default

\* a lookup that forgets to lower-case the argument
PayloadLanguageNoLower(lang) == DictGet(AWARRI_LANGUAGE_MAPPING, lang, "English")

\* payload["language"]
PayloadLanguage(lang) == DictGet(AWARRI_LANGUAGE_MAPPING, lower(lang), "English")

\* how the POST and the reading of its response can go
HttpOutcomes == {"ok", "network_error", "http_error", "bad_json"}

\* the language strings tried: every spelling in upper and lower case of these
BaseWords ==
    {<<"h", "a", "u", "s", "a">>,
     <<"e", "n", "g", "l", "i", "s", "h">>,
     <<"i", "g", "b", "o">>,
     <<"h", "a", "u", "s">>,
     <<"h", "a", "u", "s", "a", " ">>,
     <<>>}

UpperChar(c) ==
    IF \E i \in DOMAIN LowerLetters : LowerLetters[i] = c
    THEN UpperLetters[CHOOSE i \in DOMAIN LowerLetters : LowerLetters[i] = c]
    ELSE c

RECURSIVE Spellings(_)
Spellings(w) ==
    IF Len(w) = 0 THEN {<<>>}
    ELSE {<<c>> \o t : c \in {w[1], UpperChar(w[1])}, t \in Spellings(Tail(w))}

LanguageInputs == UNION {Spellings(w) : w \in BaseWords}

\* the call on the language and with the HTTP outcome the behaviour started with
transcribe_with_awarri_new ==
    /\ transcribe_status = "none"
    /\ request_language' = PayloadLanguage(language)
    /\ transcribe_status' = IF http_outcome = "ok" THEN "success" ELSE "error"
    /\ UNCHANGED <<language, http_outcome>>
    /\ UNCHANGED <<eval_vars, disk_vars, audio_vars, batch_vars>>

\* ------------------------------------------------------------------------
\* data_generation.py: run_batch_tts
\* ------------------------------------------------------------------------
\* TEXTS of data_generation.py, letters outside ASCII written in ASCII
GEN_TEXTS ==
    [short |->
        <<"Sannu! Ta yaya zan iya taimaka maka yau?",
          "Don Allah jira dan lokaci.",
          "Ana sarrafa bukatarka.",
          "Na gode da tuntubar MTN.",
          "Shigarwar ba daidai ba, don Allah gwada kuma.">>,
     medium |->
        <<"Adadin bayananka shi ne N600. Zai kare a ranar 20 ga Oktoba. Latsa *131# don siyan kari.",
          "Zan iya taimaka maka da airtime, data ko matsalar asusu. Me kake son yi?",
          "Kana da shirin bayanai guda daya mai aiki yanzu. Kana so ka kalla ko ka soke shi?",
          "Yi hakuri, ban ji hakan ba. Za ka iya maimaitawa?">>,
     long |->
        <<"Barka da zuwa MTN Sashen Kula da Abokan Hulda. Zaka iya siyan bayanai, cajar airtime, bincika balance dinka, ko neman taimako kan asusunka. Don Allah zabi zabi don ci gaba.",
          "Mun lura cewa ka yi amfani da kashi 80% na bayananka. Don guje wa katsewa, zaka iya kara bayananka ta *131# ko ta cikin MTN app.",
          "SIM dinka ba a gama rajista ba don wasu ayyuka. Don kammala, je cibiyar MTN mafi kusa tare da sahihin ID. Mun gode da fahimtarka.",
          "Airtime dinka bai isa kammala wannan mu'amala ba. Don Allah caji layinka sannan ka sake gwadawa. Latsa *555*PIN# don caji.">>]

\* a TEXTS whose "long" entry comes before "medium"
CategoryOrderSwapped == <<"short", "long", "medium">>

\* the order in which TEXTS.items() yields the categories
CategoryOrder == <<"short", "medium", "long">>

\* enumerate(texts, start=1)
EnumStart == 1

RECURSIVE LoopOrder(_, _)
\* the iterations of the two nested loops from category number c, position k on
LoopOrder(c, k) ==
    IF c > Len(CategoryOrder) THEN <<>>
    ELSE IF k > Len(GEN_TEXTS[CategoryOrder[c]]) THEN LoopOrder(c + 1, 1)
    ELSE <<[category |-> CategoryOrder[c],
            idx      |-> EnumStart + k - 1,
            text     |-> GEN_TEXTS[CategoryOrder[c]][k]]>>
         \o LoopOrder(c, k + 1)

\* all iterations of run_batch_tts
Iterations == LoopOrder(1, 1)

\* OUTPUT_DIR / f"Hausa_{category}_audio{idx}.wav"
OutputPath(category, idx) == AudioPath(category, idx)

\* what the synthesis endpoint can send back
Bytes == {"wav-a", "wav-b"}

\* the loop moves on after an iteration
BatchAdvance ==
    /\ batch_pos' = batch_pos + 1
    /\ batch_state' = IF batch_pos + 1 = Len(Iterations) THEN "done" ELSE "running"

\* an exception leaves run_batch_tts: nothing in it catches one
BatchRaise ==
    /\ batch_pos' = batch_pos
    /\ batch_state' = "raised"

\* one iteration: the synthesis returns b and the file is written
GenerateEntry(b) ==
    /\ batch_state = "running"
    /\ LET it == Iterations[batch_pos + 1]
           output_path == OutputPath(it.category, it.idx)
       IN  /\ synth_calls' = Append(synth_calls, it.text)
           /\ synth_returns' = Append(synth_returns, b)
           /\ files' = (output_path :> b) @@ files
           /\ written' = Append(written, output_path)
    /\ BatchAdvance
    /\ UNCHANGED <<folder_exists, eval_vars, audio_vars, transcribe_vars>>

\* one iteration: requests.post raises, or the status is not 200
SynthesisFails ==
    /\ batch_state = "running"
    /\ synth_calls' = Append(synth_calls, Iterations[batch_pos + 1].text)
    /\ BatchRaise
    /\ UNCHANGED <<synth_returns, files, written, folder_exists>>
    /\ UNCHANGED <<eval_vars, audio_vars, transcribe_vars>>

\* one iteration: the synthesis returns b, then open() raises (the file is as it
\* was) or f.write() raises (the file was created or truncated by open)
WriteFails(b, opened) ==
    /\ batch_state = "running"
    /\ LET it == Iterations[batch_pos + 1]
           output_path == OutputPath(it.category, it.idx)
       IN  /\ synth_calls' = Append(synth_calls, it.text)
           /\ synth_returns' = Append(synth_returns, b)
           /\ files' = IF opened THEN (output_path :> "") @@ files ELSE files
    /\ BatchRaise
    /\ UNCHANGED <<written, folder_exists, eval_vars, audio_vars, transcribe_vars>>

\* a folder that holds all 13 files of an earlier run
OldDisk ==
    [p \in {AudioPath("short", i) : i \in 1..5}
           \cup {AudioPath("medium", i) : i \in 1..4}
           \cup {AudioPath("long", i) : i \in 1..4} |-> "old"]

\* ------------------------------------------------------------------------
\* Specifications
\* ------------------------------------------------------------------------
NoEvaluation == EvalInit({}) /\ creds = "valid" /\ sheet_id = "present"

AudioIdle ==
    /\ audio_files = [short |-> <<>>, medium |-> <<>>, long |-> <<>>]
    /\ audio_called = FALSE

TranscribeIdle ==
    /\ language = <<>>
    /\ http_outcome = "none"
    /\ request_language = "none"
    /\ transcribe_status = "none"

BatchIdle ==
    /\ batch_state = "not started"
    /\ batch_pos = 0
    /\ synth_calls = <<>>
    /\ synth_returns = <<>>
    /\ written = <<>>

\* --- one evaluator in the evaluation tab, a backend whose calls may fail
Init ==
    /\ EvalInit({"s1"})
    /\ creds \in {"missing", "invalid", "valid"}
    /\ sheet_id \in {"missing", "present"}
    /\ \/ folder_exists = FALSE /\ files = <<>>
       \/ folder_exists = TRUE /\ files \in {<<>>, GapDisk}
    /\ AudioIdle /\ TranscribeIdle /\ BatchIdle

Spec == Init /\ [][Next]_vars

\* --- two evaluators at once, a configured backend whose calls all succeed
InitConcurrent ==
    /\ EvalInit(Sessions)
    /\ creds = "valid"
    /\ sheet_id = "present"
    /\ folder_exists = TRUE /\ files = GapDisk
    /\ AudioIdle /\ TranscribeIdle /\ BatchIdle

SpecConcurrent == InitConcurrent /\ [][NextConcurrent]_vars

\* --- get_audio_files on every folder content
AudioCandidates ==
    {AudioPath("short", i) : i \in 1..6}
    \cup {AudioPath("medium", i) : i \in 1..5}
    \cup {AudioPath("long", i) : i \in 1..5}

InitAudio ==
    /\ NoEvaluation /\ TranscribeIdle /\ BatchIdle /\ AudioIdle
    /\ \/ folder_exists = FALSE /\ files = <<>>
       \/ /\ folder_exists = TRUE
          /\ \E present \in SUBSET AudioCandidates : files = [p \in present |-> "wav"]

NextAudio == CallGetAudioFiles

SpecAudio == InitAudio /\ [][NextAudio]_vars

\* --- transcribe_with_awarri_new on every language string
InitTranscribe ==
    /\ NoEvaluation /\ BatchIdle /\ AudioIdle
    /\ folder_exists = FALSE /\ files = <<>>
    /\ language \in LanguageInputs
    /\ http_outcome \in HttpOutcomes
    /\ request_language = "none"
    /\ transcribe_status = "none"

NextTranscribe == transcribe_with_awarri_new

SpecTranscribe == InitTranscribe /\ [][NextTranscribe]_vars

\* --- run_batch_tts, started on an empty folder or on an earlier run's files
InitBatch ==
    /\ NoEvaluation /\ TranscribeIdle /\ AudioIdle
    /\ folder_exists = TRUE
    /\ files \in {<<>>, OldDisk}
    /\ batch_state = "running"
    /\ batch_pos = 0
    /\ synth_calls = <<>>
    /\ synth_returns = <<>>
    /\ written = <<>>

NextBatch ==
    \/ \E b \in Bytes : GenerateEntry(b)
    \/ SynthesisFails
    \/ \E b \in Bytes, opened \in BOOLEAN : WriteFails(b, opened)

SpecBatch == InitBatch /\ [][NextBatch]_vars

\* --- the evaluation view of one evaluator on every folder content
InitView ==
    /\ EvalInit({"s1"})
    /\ creds = "valid"
    /\ sheet_id = "present"
    /\ AudioIdle /\ TranscribeIdle /\ BatchIdle
    /\ \/ folder_exists = FALSE /\ files = <<>>
       \/ /\ folder_exists = TRUE
          /\ \E present \in SUBSET AudioCandidates : files = [p \in present |-> "wav"]

NextView == \E e \in evaluators, n \in Names : EditName(e, n)

SpecView == InitView /\ [][NextView]_vars

\* ------------------------------------------------------------------------
\* Properties
\* ------------------------------------------------------------------------
\* a row of the sheet that is a header row
IsHeaderRow(r) == r[1] = "Timestamp"

HeaderRows == {i \in 1..Len(sheet) : IsHeaderRow(sheet[i])}

DataRows == {i \in 1..Len(sheet) : ~IsHeaderRow(sheet[i])}

\* no session is inside save_to_google_sheets
AllIdle == \A e \in evaluators : pc[e] = "idle"

\* the last script run of session e called save_to_google_sheets and it returned
SubmitDone(e) == pc[e] = "idle" /\ DOMAIN data[e] # {}

\* C1: in no step that ends with an empty evaluator name is save_to_google_sheets
\* called, is a session inside it, or does the sheet get a row.
C1_EmptyNameNeverSaves ==
    [][\A e \in evaluators :
          user_name'[e] = "" =>
              /\ calls'[e] = calls[e]
              /\ pc'[e] = "idle"
              /\ sheet' = sheet]_vars

\* C1: Submit was clicked with an empty name, after an evaluation had been saved
C1_Witness ==
    \E e \in evaluators : clicked[e] /\ user_name[e] = "" /\ Len(saved) > 0

\* C2: with a single writer and no call in progress, the sheet is empty or it is
\* one header row followed by the rows of the saved records, in call order, each
\* in the header's column order.
C2_OneHeaderThenRows ==
    AllIdle =>
        \/ Len(sheet) = 0
        \/ /\ IsHeaderRow(sheet[1])
           /\ sheet[1] = headers
           /\ Len(sheet) = 1 + Len(saved)
           /\ \A i \in 1..Len(saved) :
                 /\ ~IsHeaderRow(sheet[i + 1])
                 /\ sheet[i + 1] = [j \in 1..Len(sheet[1]) |-> saved[i][sheet[1][j]]]

\* C3: a save_to_google_sheets call that returned False appended no row.
C3_NoPartialWrite ==
    \A e \in evaluators : result[e] = "False" => wrote[e] = 0

\* C4: a finished submit is reported as a success exactly when it appended its
\* data row, and as a failure otherwise; success is shown for nothing else.
C4_ReportedIffAppended ==
    \A e \in evaluators :
        /\ SubmitDone(e) =>
              IF row_written[e]
              THEN /\ result[e] = "True"
                   /\ message[e] = "success"
                   /\ \E i \in DataRows : sheet[i] = Row(data[e])
              ELSE /\ result[e] = "False"
                   /\ message[e] = "error_save"
        /\ ~SubmitDone(e) => (message[e] # "success" /\ result[e] # "True")

\* C4: a submit failed after an earlier one had succeeded
C4_Witness ==
    \E e \in evaluators :
        /\ SubmitDone(e) /\ result[e] = "False" /\ message[e] = "error_save"
        /\ Len(saved) > 0

\* C5: once run_batch_tts has stopped, every one of the 13 entries was attempted.
C5_FailureNeverAborts ==
    batch_state \in {"done", "raised"} => Len(synth_calls) = 13

\* the catalog order: short 1..5, medium 1..4, long 1..4
ExpectedOrder ==
    <<<<"short", 1>>, <<"short", 2>>, <<"short", 3>>, <<"short", 4>>, <<"short", 5>>,
      <<"medium", 1>>, <<"medium", 2>>, <<"medium", 3>>, <<"medium", 4>>,
      <<"long", 1>>, <<"long", 2>>, <<"long", 3>>, <<"long", 4>>>>

ExpectedFile(k) ==
    <<"hausa_audio", "Hausa_", ExpectedOrder[k][1], "_audio", ExpectedOrder[k][2], ".wav">>

\* C6: the synthesis calls are made one per entry in catalog order, and a run in
\* which every call succeeded ends with 13 calls and the 13 files, each holding
\* the bytes returned for its entry.
C6_ThirteenInOrder ==
    /\ Len(synth_calls) <= 13
    /\ \A k \in 1..Len(synth_calls) :
          synth_calls[k] = GEN_TEXTS[ExpectedOrder[k][1]][ExpectedOrder[k][2]]
    /\ batch_state = "done" =>
          /\ Len(synth_calls) = 13
          /\ Len(synth_returns) = 13
          /\ written = [k \in 1..13 |-> ExpectedFile(k)]
          /\ DOMAIN files = {ExpectedFile(k) : k \in 1..13}
          /\ \A k \in 1..13 : files[ExpectedFile(k)] = synth_returns[k]

\* C6: a finished run whose calls did not all return the same bytes
C6_Witness ==
    /\ batch_state = "done"
    /\ \E j, k \in 1..Len(synth_returns) : synth_returns[j] # synth_returns[k]

\* C7: with several evaluators and no call in progress, the sheet is empty or
\* starts with its only header row, and holds one data row per successful submit.
C7_AppendsSerialized ==
    AllIdle =>
        \/ Len(sheet) = 0
        \/ /\ IsHeaderRow(sheet[1])
           /\ Cardinality(HeaderRows) = 1
           /\ Cardinality(DataRows) = Len(saved)

\* C8: every score in a dict passed to save_to_google_sheets and in a data row
\* of the sheet is an integer from 1 to 10.
C8_ScoresInRange ==
    /\ \A e \in evaluators :
          DOMAIN data[e] # {} =>
              \A c \in {"Naturalness Score", "Accuracy Score",
                        "Pronouncing Numbers Score", "Pronouncing MTN Lingo Score"} :
                  data[e][c] \in 1..10
    /\ \A i \in DataRows : \A j \in 3..6 : sheet[i][j] \in 1..10

\* C8: a row with an edited score at the upper end of the range is in the sheet
C8_Witness ==
    \E i \in DataRows : sheet[i][4] = 10 /\ sheet[i][3] = 5

\* a spelling of "hausa" in upper and lower case letters
IsHausaSpelling(s) ==
    /\ Len(s) = 5
    /\ s[1] \in {"h", "H"}
    /\ s[2] \in {"a", "A"}
    /\ s[3] \in {"u", "U"}
    /\ s[4] \in {"s", "S"}
    /\ s[5] \in {"a", "A"}

\* C9: the request's language is "Hausa" for a spelling of "hausa" and "English"
\* for every other string, and a call whose POST went well has status success.
C9_UnknownLanguageIsEnglish ==
    transcribe_status # "none" =>
        /\ request_language = IF IsHausaSpelling(language) THEN "Hausa" ELSE "English"
        /\ http_outcome = "ok" => transcribe_status = "success"

\* C9: an unknown language was sent as English and the call succeeded
C9_Witness ==
    /\ language = <<"I", "g", "b", "o">>
    /\ request_language = "English"
    /\ transcribe_status = "success"

\* C10: for each tier, get_audio_files returns the existing files
\* Hausa_{tier}_audio{i}.wav, i from 1 to the tier's size, in increasing i.
C10_ExistingPathsInOrder ==
    audio_called =>
        \A tier \in {"short", "medium", "long"} :
            LET n == IF tier = "short" THEN 5 ELSE 4
                r == audio_files[tier]
                Canon(i) == <<"hausa_audio", "Hausa_", tier, "_audio", i, ".wav">>
            IN  /\ \A j \in 1..Len(r) :
                      /\ r[j] \in DOMAIN files
                      /\ \E i \in 1..n : r[j] = Canon(i)
                /\ \A i \in 1..n : Canon(i) \in DOMAIN files => \E j \in 1..Len(r) : r[j] = Canon(i)
                /\ \A j, k \in 1..Len(r) : j < k => r[j][5] < r[k][5]

\* C10: a folder with gaps and a file outside the catalog was listed
C10_Witness ==
    /\ audio_called
    /\ <<"hausa_audio", "Hausa_", "short", "_audio", 6, ".wav">> \in DOMAIN files
    /\ audio_files["short"] = << <<"hausa_audio", "Hausa_", "short", "_audio", 2, ".wav">>,
                                 <<"hausa_audio", "Hausa_", "short", "_audio", 4, ".wav">> >>
    /\ Len(audio_files["medium"]) = 0
    /\ Len(audio_files["long"]) = 4

\* C11: every audio drawn, Hausa_{tier}_audio{i}.wav, stands beside the text of
\* catalog entry i of its tier and under the label i.
C11_AudioBesideItsText ==
    \A e \in evaluators : \A tier \in {"short", "medium", "long"} :
        \A k \in 1..Len(shown[e][tier]) :
            LET item == shown[e][tier][k]
                i == item.audio[5]
            IN  /\ item.audio = <<"hausa_audio", "Hausa_", tier, "_audio", i, ".wav">>
                /\ i \in 1..Len(TEXTS[tier])
                /\ item.text = TEXTS[tier][i]
                /\ item.label = i

====
